---- MODULE Spec2Model ----
(***************************************************************************)
(* The driver cells of advanced-ray/01-Ray-Tasks-Revisited.ipynb and of    *)
(* advanced-ray/solutions/Advanced-Ray-Solutions.ipynb, run against the    *)
(* task semantics the notebooks describe: remote tasks run in parallel, a  *)
(* task whose argument is a future starts once that future is available,   *)
(* ray.get blocks until every object it is given is available, ray.wait    *)
(* returns as soon as num_returns of its objects are available or its      *)
(* timeout has elapsed.                                                    *)
(*                                                                         *)
(* Time is a discrete clock, one tick = 0.1 second, so that                *)
(* time.sleep(n/10.0) is n ticks, time.sleep(n) is 10*n ticks and a        *)
(* timeout of 2.5 seconds is 25 ticks.  The driver's own statements take   *)
(* no time; the clock advances only while the driver is blocked.           *)
(***************************************************************************)
EXTENDS Integers, Sequences, FiniteSets, TLC

VARIABLES cell, timeout, reset, now, tasks, pc, ids, waiting_ids, ready_ids,
          remaining_ids, return_n, callTime, arrays, got, log, printed,
          start, duration, iter, getCalls

vars == << cell, timeout, reset, now, tasks, pc, ids, waiting_ids, ready_ids,
           remaining_ids, return_n, callTime, arrays, got, log, printed,
           start, duration, iter, getCalls >>

(* ---------------------------- bounds ---------------------------------- *)

MaxIter == 24

MaxSpin == 6

(* ------------------------- program constants -------------------------- *)

TimeoutTen == 100

TimeoutExercise == 25

TimeoutShort == 15

TimeoutShortest == 5

DurationLimit == 41

SecondTicks == 10

NoTimeout == 0 - 1

(* ------------------------------ values -------------------------------- *)

IntVal(n) == [kind |-> "int", n |-> n]

ArrayVal(n) == [kind |-> "array", n |-> n]

IdVal(t) == [kind |-> "id", n |-> t]

NoVal == [kind |-> "none", n |-> 0]

ErrVal == [kind |-> "error", n |-> 0]

Range(s) == { s[i] : i \in 1..Len(s) }

Min(a, b) == IF a < b THEN a ELSE b

(* ------------------------- the remote functions ----------------------- *)

\* time.sleep(...) of each remote function, in ticks, on its resolved arguments
SleepOf(fn, a) ==
    IF fn = "make_array" THEN a[1].n
    ELSE IF fn = "add_arrays" THEN (IF a[1].kind = "array" THEN a[1].n ELSE 0)
    ELSE a[1].n * SecondTicks

\* the return value of each remote function on its resolved arguments;
\* an array is represented by its size
ResultOf(fn, a) ==
    IF fn = "make_array" THEN ArrayVal(a[1].n)
    ELSE IF fn = "add_arrays"
         THEN (IF a[1].kind = "array" /\ a[2].kind = "array"
               THEN ArrayVal(a[1].n) ELSE ErrVal)
    ELSE IntVal(a[1].n * a[1].n)

(* ------------------------- the cells' submissions --------------------- *)

ChainCells == {"getall", "wait1", "wait2"}

SquareCells == {"ex1", "ex3"}

LoopCells == {"wait1", "wait2", "ex3"}

Call(fn, a) == [fn |-> fn, args |-> a]

\* the .remote(...) calls of a cell, in the order the driver makes them
Calls(c) ==
    IF c = "dep"
    THEN << Call("make_array", << IntVal(20) >>),
            Call("make_array", << IntVal(20) >>),
            Call("add_arrays", << IdVal(1), IdVal(2) >>) >>
    ELSE IF c \in ChainCells
    THEN [ i \in 1..10 |->
             IF i <= 5 THEN Call("make_array", << IntVal((i - 1) * 10) >>)
             ELSE Call("add_arrays", << IdVal(i - 5), IdVal(i - 5) >>) ]
    ELSE [ i \in 1..4 |-> Call("slow_square", << IntVal(i - 1) >>) ]

\* the ids the cell later asks results for
ResultIds(c) ==
    IF c = "dep" THEN << 3 >>
    ELSE IF c \in ChainCells THEN << 6, 7, 8, 9, 10 >>
    ELSE << 1, 2, 3, 4 >>

(* ------------------------------ tasks --------------------------------- *)

IsDone(t) == t <= Len(tasks) /\ tasks[t].state = "done"

RefsOf(a) == { a[i].n : i \in { j \in 1..Len(a) : a[j].kind = "id" } }

\* faulty variant: a task starts without waiting for its argument futures
CanStartNoDeps(t) == tasks[t].state = "submitted"

\* faulty variant: one task at a time, in submission order (no parallelism)
CanStartSerial(t) ==
    /\ tasks[t].state = "submitted"
    /\ \A d \in RefsOf(tasks[t].args) : IsDone(d)
    /\ \A u \in 1..Len(tasks) : tasks[u].state # "running"
    /\ \A u \in 1..(t - 1) : tasks[u].state # "submitted"

\* a submitted task may start once every future among its arguments is
\* available; independent tasks run in parallel, each on a worker of its own
CanStart(t) ==
    /\ tasks[t].state = "submitted"
    /\ \A d \in RefsOf(tasks[t].args) : IsDone(d)

\* the arguments a task function receives: futures replaced by their values
Resolve(a) ==
    [ i \in 1..Len(a) |->
        IF a[i].kind = "id"
        THEN (IF IsDone(a[i].n) THEN tasks[a[i].n].value ELSE a[i])
        ELSE a[i] ]

(* --------------------------- ray.get / ray.wait ----------------------- *)

\* faulty variant: ray.get returns as soon as one object is available
GetReadyAny(l) == \E i \in 1..Len(l) : IsDone(l[i])

\* ray.get(list) returns only when every object of the list is available
GetReady(l) == \A i \in 1..Len(l) : IsDone(l[i])

\* faulty variant: the values in the reverse of the list's order
RayGetReversed(l) == [ i \in 1..Len(l) |-> tasks[l[Len(l) + 1 - i]].value ]

\* ray.get(list): the values, in the order of the list
RayGet(l) == [ i \in 1..Len(l) |-> tasks[l[i]].value ]

\* the available ids of a list, in the order of the list
ReadyOf(w) == SelectSeq(w, IsDone)

\* faulty variant: ray.wait waits for the whole list, as ray.get does
WaitSatisfiedAll(w, k) == Len(ReadyOf(w)) >= Len(w)

\* ray.wait stops waiting when num_returns objects are available
WaitSatisfied(w, k) == Len(ReadyOf(w)) >= k

\* first list returned by ray.wait: at most num_returns available ids
RayWaitReady(w, k) == SubSeq(ReadyOf(w), 1, Min(k, Len(ReadyOf(w))))

\* faulty variant: the input list without its first num_returns entries
RayWaitRemainingTail(w, k) == SubSeq(w, Min(k, Len(w)) + 1, Len(w))

\* second list returned by ray.wait: the rest of the input list
RayWaitRemaining(w, k) ==
    LET r == Range(RayWaitReady(w, k))
        Rest(i) == i \notin r
    IN  SelectSeq(w, Rest)

(* ------------------------- driver helpers ----------------------------- *)

\* faulty variant: num_returns=2 on every call
ReturnNTwo(c, w) == IF c = "wait2" THEN 2 ELSE 1

\* faulty variant: num_returns=1 on every call
ReturnNOne(c, w) == 1

\* return_n = 2 if len(waiting_ids) > 1 else 1   (num_returns=1 elsewhere)
ReturnN(c, w) == IF c = "wait2" THEN (IF Len(w) > 1 THEN 2 ELSE 1) ELSE 1

\* faulty variant: the new results are put in front of the list
ExtendFront(l, new) == new \o l

\* arrays.extend(new_arrays) / squares.extend(ray.get(finished_ids))
Extend(l, new) == l \o new

\* faulty variant: the list is reset even in the loop of the warning
NextWaitingAlways(r, w, rem) == rem

\* waiting_ids = remaining_ids; the loop the warning describes keeps the list
NextWaiting(r, w, rem) == IF r THEN rem ELSE w

\* the print loop over new_arrays
Prints(vals) == [ i \in 1..Len(vals) |-> [size |-> vals[i].n, t |-> now] ]

\* the timeouts each cell is run with: 10.0 as written, and 2.5, 1.5 and 0.5
\* as the exercise and its solution ask for; the Exercise 3 loop has none
Timeouts(c) ==
    IF c = "wait1" THEN {TimeoutTen}
    ELSE IF c = "wait2"
         THEN {TimeoutTen, TimeoutExercise, TimeoutShort, TimeoutShortest}
    ELSE {NoTimeout}

\* the timeout of the pending ray.wait has elapsed
TimedOut == timeout # NoTimeout /\ now >= callTime + timeout

(* ------------------------------ Init ---------------------------------- *)

\* a cell is chosen, with its timeout; reset = FALSE is the num_returns=1 loop
\* without the statement waiting_ids = remaining_ids
Init ==
    /\ cell \in {"dep"} \cup ChainCells \cup SquareCells
    /\ timeout \in Timeouts(cell)
    /\ reset \in (IF cell = "wait1" THEN BOOLEAN ELSE {TRUE})
    /\ now = 0
    /\ tasks = << >>
    /\ pc = "submit"
    /\ ids = << >>
    /\ waiting_ids = << >>
    /\ ready_ids = << >>
    /\ remaining_ids = << >>
    /\ return_n = 0
    /\ callTime = 0
    /\ arrays = << >>
    /\ got = << >>
    /\ log = << >>
    /\ printed = << >>
    /\ start = 0
    /\ duration = NoTimeout
    /\ iter = 0
    /\ getCalls = 0

(* ----------------------------- actions -------------------------------- *)

\* one f.remote(...) call of the cell; after the last one the driver goes on
Submit ==
    /\ pc = "submit"
    /\ LET n == Len(tasks) + 1
           c == Calls(cell)[n]
       IN  /\ tasks' = Append(tasks, [fn |-> c.fn, args |-> c.args,
                                      state |-> "submitted",
                                      resolved |-> << >>, finish |-> 0,
                                      value |-> NoVal])
           /\ IF n = Len(Calls(cell))
              THEN /\ ids' = ResultIds(cell)
                   /\ waiting_ids' = IF cell \in LoopCells
                                     THEN ResultIds(cell) ELSE waiting_ids
                   /\ pc' = IF cell \in LoopCells THEN "loop" ELSE "get"
              ELSE UNCHANGED << ids, waiting_ids, pc >>
    /\ start' = (IF Len(tasks) = 0 THEN now ELSE start)
    /\ UNCHANGED << cell, timeout, reset, now, ready_ids, remaining_ids,
                    return_n, callTime, arrays, got, log, printed, duration,
                    iter, getCalls >>

\* a worker picks the task up, resolves its arguments and begins to sleep
StartTask(t) ==
    /\ t \in 1..Len(tasks)
    /\ CanStart(t)
    /\ LET a == Resolve(tasks[t].args)
       IN  tasks' = [tasks EXCEPT ![t].state = "running",
                                  ![t].resolved = a,
                                  ![t].finish = now + SleepOf(tasks[t].fn, a)]
    /\ UNCHANGED << cell, timeout, reset, now, pc, ids, waiting_ids,
                    ready_ids, remaining_ids, return_n, callTime, arrays, got,
                    log, printed, start, duration, iter, getCalls >>

\* the sleep is over: the function returns and its object becomes available
FinishTask(t) ==
    /\ t \in 1..Len(tasks)
    /\ tasks[t].state = "running"
    /\ now >= tasks[t].finish
    /\ tasks' = [tasks EXCEPT ![t].state = "done",
                              ![t].value = ResultOf(tasks[t].fn,
                                                    tasks[t].resolved)]
    /\ UNCHANGED << cell, timeout, reset, now, pc, ids, waiting_ids,
                    ready_ids, remaining_ids, return_n, callTime, arrays, got,
                    log, printed, start, duration, iter, getCalls >>

\* ray.get(ids) of the cells without a wait loop, and the statements after it
GetAll ==
    /\ pc = "get"
    /\ GetReady(ids)
    /\ arrays' = RayGet(ids)
    /\ got' = ids
    /\ getCalls' = getCalls + 1
    /\ printed' = IF cell \in SquareCells THEN printed
                  ELSE Prints(RayGet(ids))
    /\ duration' = now - start
    /\ pc' = "done"
    /\ UNCHANGED << cell, timeout, reset, now, tasks, ids, waiting_ids,
                    ready_ids, remaining_ids, return_n, callTime, log, start,
                    iter >>

\* while len(waiting_ids) > 0: compute return_n and call ray.wait
WaitCall ==
    /\ pc = "loop"
    /\ Len(waiting_ids) > 0
    /\ iter < (IF reset THEN MaxIter ELSE MaxSpin)
    /\ return_n' = ReturnN(cell, waiting_ids)
    /\ pc' = IF return_n' > Len(waiting_ids) THEN "error" ELSE "wait"
    /\ callTime' = now
    /\ iter' = iter + 1
    /\ UNCHANGED << cell, timeout, reset, now, tasks, ids, waiting_ids,
                    ready_ids, remaining_ids, arrays, got, log, printed,
                    start, duration, getCalls >>

\* ray.wait returns; the rest of the loop body
WaitReturn ==
    /\ pc = "wait"
    /\ WaitSatisfied(waiting_ids, return_n) \/ TimedOut
    /\ LET r == RayWaitReady(waiting_ids, return_n)
           rem == RayWaitRemaining(waiting_ids, return_n)
       IN  /\ ready_ids' = r
           /\ remaining_ids' = rem
           /\ log' = Append(log, [n |-> Len(r), t |-> now,
                                  asked |-> return_n,
                                  timedOut |-> ~WaitSatisfied(waiting_ids,
                                                              return_n)])
           /\ arrays' = Extend(arrays, RayGet(r))
           /\ got' = got \o r
           /\ getCalls' = getCalls + 1
           /\ printed' = IF cell \in SquareCells THEN printed
                         ELSE printed \o Prints(RayGet(r))
           /\ waiting_ids' = NextWaiting(reset, waiting_ids, rem)
    /\ pc' = "loop"
    /\ UNCHANGED << cell, timeout, reset, now, tasks, ids, return_n,
                    callTime, start, duration, iter >>

\* the loop condition is false: the statements after the loop
LoopExit ==
    /\ pc = "loop"
    /\ Len(waiting_ids) = 0
    /\ duration' = now - start
    /\ pc' = "done"
    /\ UNCHANGED << cell, timeout, reset, now, tasks, ids, waiting_ids,
                    ready_ids, remaining_ids, return_n, callTime, arrays, got,
                    log, printed, start, iter, getCalls >>

\* the next instant at which something is due: a running task's sleep ends or
\* the pending ray.wait times out
DueTimes ==
    { tasks[t].finish : t \in { u \in 1..Len(tasks) : tasks[u].state = "running" } }
    \cup (IF pc = "wait" /\ timeout # NoTimeout THEN {callTime + timeout} ELSE {})

NextDue == CHOOSE d \in DueTimes : \A e \in DueTimes : d <= e

\* time passes up to the next due instant: nothing that is due now is left
\* undone, and the driver is blocked in ray.get or ray.wait (or spins in a
\* loop that never blocks)
Tick ==
    /\ \A t \in 1..Len(tasks) :
          /\ ~CanStart(t)
          /\ ~(tasks[t].state = "running" /\ now >= tasks[t].finish)
    /\ \E t \in 1..Len(tasks) : tasks[t].state # "done"
    /\ \/ pc = "get" /\ ~GetReady(ids)
       \/ pc = "wait" /\ ~WaitSatisfied(waiting_ids, return_n) /\ ~TimedOut
       \/ pc = "loop" /\ ~reset
    /\ DueTimes # {}
    /\ now' = NextDue
    /\ UNCHANGED << cell, timeout, reset, tasks, pc, ids, waiting_ids,
                    ready_ids, remaining_ids, return_n, callTime, arrays, got,
                    log, printed, start, duration, iter, getCalls >>

Next ==
    \/ Submit
    \/ \E t \in 1..10 : StartTask(t)
    \/ \E t \in 1..10 : FinishTask(t)
    \/ GetAll
    \/ WaitCall
    \/ WaitReturn
    \/ LoopExit
    \/ Tick

Spec == Init /\ [][Next]_vars

(* ----------------------------- properties ----------------------------- *)

Nums(l) == [ i \in 1..Len(l) |-> l[i].n ]

NoDuplicates(l) == Cardinality(Range(l)) = Len(l)

\* C1: when the ray.wait loop of the Exercise 3 solution ends, squares is
\* [0, 1, 4, 9]: the results were appended in submission order.
C1_WaitLoopSquares ==
    (cell = "ex3" /\ pc = "done")
        => (arrays = << IntVal(0), IntVal(1), IntVal(4), IntVal(9) >>
            /\ got = ids)

C1_Witness ==
    /\ cell = "ex3" /\ pc = "done"
    /\ Len(log) = 4
    /\ \A i \in 1..4 : log[i].n = 1 /\ log[i].t = (i - 1) * SecondTicks

C3_DurationBelowLimit ==
    (cell \in SquareCells /\ pc = "done")
        => (duration < DurationLimit /\ duration = 3 * SecondTicks)

C3_Witness ==
    /\ cell \in SquareCells /\ pc = "done"
    /\ duration = 3 * SecondTicks
    /\ Len(arrays) = 4

\* C4: in the num_returns=1 loop that does not reset waiting_ids, once a
\* call of ray.wait has returned a completed id, every later call returns
\* at once with that same id, waiting_ids never shrinks, and the loop never
\* reaches its exit.
C4_StepSame ==
    (~reset /\ pc = "wait" /\ pc' = "loop" /\ ready_ids # << >>)
        => (ready_ids' = ready_ids /\ now' = callTime /\ Len(ready_ids') = 1)

C4_NoResetLoopsForever ==
    /\ [](~reset => (pc # "done"
                     /\ (pc = "loop" => Len(waiting_ids) > 0)
                     /\ (ready_ids # << >> => ready_ids = << ids[1] >>)))
    /\ [][C4_StepSame]_vars

C4_Witness ==
    /\ ~reset /\ pc = "loop" /\ iter >= 3
    /\ ready_ids = << 6 >>
    /\ IsDone(10)
    /\ Nums(arrays) = [ i \in 1..iter |-> 0 ]
    /\ log[iter].t > log[1].t

\* C5: at every call of ray.wait in the num_returns=2 loops, for each of the
\* timeouts, 1 <= return_n <= len(waiting_ids), so the call never raises.
C5_ReturnNInRange ==
    (cell = "wait2")
        => (/\ pc # "error"
            /\ (pc = "wait" => (1 <= return_n /\ return_n <= Len(waiting_ids))))

C5_Witness ==
    /\ cell = "wait2" /\ pc = "wait"
    /\ Len(waiting_ids) = 1 /\ return_n = 1
    /\ \E i \in 1..Len(log) : log[i].n = 0
    /\ \E i \in 1..Len(log) : log[i].n = 1 /\ log[i].asked = 2

\* C6: add_arrays.remote(id1, id2) does not run before both make_array tasks
\* have finished, it receives their arrays and not the futures, and the one
\* ray.get(id3) of the cell yields the final array.
C6_DependencyOrder ==
    (cell = "dep" /\ Len(tasks) >= 3)
        => (/\ (tasks[3].state \in {"running", "done"}
                   => (/\ IsDone(1) /\ IsDone(2)
                       /\ tasks[3].resolved = << tasks[1].value, tasks[2].value >>
                       /\ tasks[3].resolved = << ArrayVal(20), ArrayVal(20) >>
                       /\ tasks[3].finish >= tasks[1].finish + 20
                       /\ tasks[3].finish >= tasks[2].finish + 20))
            /\ (pc = "done" => (arrays = << ArrayVal(20) >> /\ getCalls = 1)))

C6_Witness ==
    /\ cell = "dep" /\ pc = "done"
    /\ now = 40
    /\ printed = << [size |-> 20, t |-> 40] >>

\* C7: in the cell that iterates over ray.get(added_array_ids) nothing is
\* printed before all five add_arrays tasks have completed.
C7_GetBlocksForAll ==
    (cell = "getall" /\ printed # << >>)
        => (/\ \A i \in 1..Len(ids) : IsDone(ids[i])
            /\ Nums(arrays) = << 0, 10, 20, 30, 40 >>
            /\ \A i \in 1..Len(printed) : printed[i].t = 80)

C7_Witness ==
    /\ cell = "getall" /\ pc = "done"
    /\ Len(printed) = 5
    /\ duration = 80

\* C8: the num_returns=1, timeout=10.0 loop over the five chains prints each
\* result when its task completes (0, 2, 4, 6, 8 seconds), one completed
\* task per iteration, sizes 0, 10, 20, 30, 40 in that order, in exactly
\* five iterations, and ends at 8 seconds.
C8_OneAtATime ==
    (cell = "wait1" /\ reset)
        => (/\ Len(printed) = Len(log)
            /\ \A i \in 1..Len(log) :
                  /\ log[i].n = 1
                  /\ printed[i].size = (i - 1) * 10
                  /\ printed[i].t = tasks[ids[i]].finish
                  /\ printed[i].t = (i - 1) * 2 * SecondTicks
            /\ (pc = "done" => (iter = 5 /\ Len(log) = 5
                                /\ duration = 8 * SecondTicks)))

C8_Witness ==
    /\ cell = "wait1" /\ reset /\ pc = "done"
    /\ iter = 5
    /\ Nums(arrays) = << 0, 10, 20, 30, 40 >>

\* C9: the num_returns=2, timeout=10.0 loop over the five chains never times
\* out and runs exactly three iterations returning 2, 2 and 1 completed
\* tasks, the last one being the task of size 40.
C9_TwoAtATime ==
    (cell = "wait2" /\ timeout = TimeoutTen)
        => (/\ \A i \in 1..Len(log) :
                  log[i].n = log[i].asked /\ ~log[i].timedOut
            /\ (pc = "done"
                  => (/\ [ i \in 1..Len(log) |-> log[i].n ] = << 2, 2, 1 >>
                      /\ iter = 3
                      /\ Nums(RayGet(ready_ids)) = << 40 >>)))

C9_Witness ==
    /\ cell = "wait2" /\ timeout = TimeoutTen /\ pc = "done"
    /\ Len(log) = 3
    /\ ready_ids = << 10 >>

\* C10: in every ray.wait loop of the notebooks, at the start of each
\* iteration the retrieved ids and waiting_ids are disjoint and together are
\* the submitted ids, no id is retrieved twice, and when the loop ends the
\* result list has one entry per submitted task.
C10_Partition ==
    (cell \in LoopCells /\ reset /\ pc \in {"loop", "done"})
        => (/\ Range(got) \cap Range(waiting_ids) = {}
            /\ Range(got) \cup Range(waiting_ids) = Range(ids)
            /\ NoDuplicates(got) /\ NoDuplicates(waiting_ids)
            /\ Len(arrays) = Len(got)
            /\ arrays = RayGet(got)
            /\ (pc = "done"
                  => (/\ waiting_ids = << >>
                      /\ Len(arrays) = (IF cell = "ex3" THEN 4 ELSE 5))))

C10_Witness ==
    /\ cell = "wait2" /\ pc = "loop"
    /\ timeout = TimeoutExercise
    /\ Len(got) = 3 /\ Len(waiting_ids) = 2
    /\ log[Len(log)].timedOut /\ log[Len(log)].n < log[Len(log)].asked

====
